---- MODULE Spec2Model ----
(***************************************************************************)
(* Model of src/example.tsx: the App component of a two-party WebRTC call. *)
(* One record per member holds the component's React state, its refs, the  *)
(* peer connections it has created and the async socket handlers that are  *)
(* suspended at an await.  Every handler of the source is a pure operator  *)
(* from member record to member record; the actions apply them.            *)
(*                                                                         *)
(* Peer-connection operations are queued by the engine in invocation       *)
(* order, so the effect of an operation on the connection is applied when  *)
(* it is invoked; its promise settles in a later step (ResumeTask).        *)
(***************************************************************************)
EXTENDS Integers, Sequences, FiniteSets, TLC

\* ------------------------------------------------------------------ bounds
MaxPc == 2          \* peer connections one member creates in a run
MaxEvents == 2      \* ready/offer/answer/ice-candidate events one member handles
MaxTrickle == 1     \* local candidates relayed in a two-member run

Members == {1, 2}
InitRoom == "test-room"
OtherRoom == "room-b"
Rooms == {InitRoom, OtherRoom}
Connected == "connected (answer set)"

VARIABLES app, net, relay

vars == <<app, net, relay>>

\* ------------------------------------------------------------ small helpers
RemoveAt(s, k) == [j \in 1..(Len(s) - 1) |-> IF j < k THEN s[j] ELSE s[j + 1]]

Other(i) == IF i = 1 THEN 2 ELSE 1

\* A signaling message: its tag, the roomId it carries, whether its payload
\* (sdp or candidate) is well formed, and the count of a joined message.
Msg(type, room, ok) == [type |-> type, roomId |-> room, ok |-> ok, count |-> 0]

JoinedMsg(count) == [type |-> "joined", roomId |-> "", ok |-> TRUE, count |-> count]

\* What the last step did: which handler ran, the messages it emitted, the
\* connection held before a teardown, whether it was the continuation of a
\* handler whose connection was already closed, the status before it (kept
\* for a peer-left handled while Connected and for such a continuation), and
\* how many endCall
\* invocations have just happened in a row.  For a continuation: the event
\* that started the handler, the operation whose promise settled and the
\* connection the handler holds; for a connection event: the connection.
NoLast == [op |-> "init", pre |-> "-", prePc |-> 0, out |-> <<>>,
           stale |-> FALSE, run |-> 0, kind |-> "-", await |-> "-", pc |-> 0]

EndOps == {"leave", "peer-left", "cleanup"}

Begin(a, op) ==
    [a EXCEPT !.last = [op |-> op,
                        pre |-> IF op = "peer-left" /\ a.status = Connected THEN a.status ELSE "-",
                        prePc |-> IF op \in EndOps THEN a.pcRef ELSE 0,
                        out |-> <<>>, stale |-> FALSE,
                        run |-> IF op \in EndOps
                                THEN (IF a.last.run >= 2 THEN 2 ELSE a.last.run + 1)
                                ELSE 0,
                        kind |-> "-", await |-> "-", pc |-> 0]]

\* setStatus / setJoined / setRemoteStream: state of a mounted component.
SetStatus(a, s) == IF a.mounted THEN [a EXCEPT !.status = s] ELSE a

\* socketRef.current?.emit(...)
Emit(a, m) ==
    IF a.socketRef # 0 THEN [a EXCEPT !.last.out = Append(@, m)] ELSE a

\* ------------------------------------------------------- the peer connection
\* cut: close() interrupted a queued operation, so the operations still
\* queued behind it did not complete either.
NewPc(hasStream) ==
    [closed |-> FALSE, closes |-> 0, sig |-> "stable", cut |-> FALSE,
     localDesc |-> FALSE, remoteDesc |-> FALSE, remoteDone |-> FALSE,
     senders |-> hasStream,
     neg |-> FALSE, offers |-> 0, answers |-> 0,
     recv |-> <<>>, early |-> <<>>, bad |-> <<>>, applied |-> <<>>]

\* Whether the engine accepts an operation invoked on connection pc
\* (JSEP signaling-state rules; a closed connection rejects everything).
OpOk(pc, op, pay) ==
    /\ ~pc.closed
    /\ CASE op = "createOffer" -> TRUE
         [] op = "setLocalOffer" -> pc.sig \in {"stable", "have-local-offer"}
         [] op = "setRemoteOffer" -> pay /\ pc.sig \in {"stable", "have-remote-offer"}
         [] op = "createAnswer" -> pc.sig = "have-remote-offer"
         [] op = "setLocalAnswer" -> pc.sig = "have-remote-offer"
         [] op = "setRemoteAnswer" -> pay /\ pc.sig = "have-local-offer"
         [] op = "addIce" -> pay /\ pc.remoteDesc
         [] OTHER -> FALSE

OpEffect(pc, op, cand) ==
    CASE op = "setLocalOffer" -> [pc EXCEPT !.sig = "have-local-offer", !.localDesc = TRUE]
      [] op = "setRemoteOffer" -> [pc EXCEPT !.sig = "have-remote-offer", !.remoteDesc = TRUE]
      [] op = "setLocalAnswer" -> [pc EXCEPT !.sig = "stable", !.localDesc = TRUE]
      [] op = "setRemoteAnswer" -> [pc EXCEPT !.sig = "stable", !.remoteDesc = TRUE]
      [] op = "addIce" -> [pc EXCEPT !.applied = Append(@, cand)]
      [] OTHER -> pc

\* pc.close() after stopping the senders' tracks.  The record of the
\* candidates a connection received is kept while it is open.
ClosePc(pc) ==
    [pc EXCEPT !.closed = TRUE, !.closes = @ + 1,
               !.recv = <<>>, !.early = <<>>, !.bad = <<>>, !.applied = <<>>]

\* ensurePeer without the `if (!pcRef.current)` test.
EnsurePeerAlways(a) ==
    [a EXCEPT !.pcs = Append(@, NewPc(a.localStream # "null")),
              !.pcRef = Len(a.pcs) + 1]

\* ensurePeer: create the connection unless pcRef.current holds one.  The
\* socket handlers close over the render in which joinRoom ran, where
\* localStream is set, so the tracks are attached at creation.
EnsurePeer(a) ==
    IF a.pcRef = 0
    THEN [a EXCEPT !.pcs = Append(@, NewPc(a.localStream # "null")),
                   !.pcRef = Len(a.pcs) + 1]
    ELSE a

CanEnsurePeer(a) == a.pcRef # 0 \/ Len(a.pcs) < MaxPc

\* `await pc.op(...)`: the operation is invoked on connection p (its effect
\* takes place in invocation order) and the handler is suspended.
Await(a, kind, p, op, pay, cand) ==
    LET ok == OpOk(a.pcs[p], op, pay)
    IN [a EXCEPT !.pcs[p] = IF ok THEN OpEffect(@, op, cand) ELSE @,
                 !.tasks = Append(@, [kind |-> kind, pc |-> p, await |-> op,
                                      ok |-> ok, cand |-> cand])]

\* --------------------------------------------------------- socket handlers
OnConnect(a) == SetStatus(Begin(a, "connect"), "socket connected")

OnJoined(a, count) ==
    SetStatus(Begin(a, "joined"), IF count = 1 THEN "joined room (1)" ELSE "joined room (2)")

\* on('peer-joined') that starts the negotiation as on('ready') does.
OnPeerJoinedOffers(a) ==
    LET a1 == EnsurePeer(SetStatus(Begin(a, "peer-joined"), "peer joined, waiting for ready"))
        p == a1.pcRef
    IN Await([a1 EXCEPT !.pcs[p].neg = TRUE], "peer-joined", p, "createOffer", TRUE, 0)

OnPeerJoined(a) == SetStatus(Begin(a, "peer-joined"), "peer joined, waiting for ready")

OnReady(a) ==
    LET a1 == EnsurePeer(Begin(a, "ready"))
        p == a1.pcRef
    IN Await([a1 EXCEPT !.pcs[p].neg = TRUE], "ready", p, "createOffer", TRUE, 0)

OnOffer(a, sdpOk) ==
    LET a1 == EnsurePeer(Begin(a, "offer"))
        p == a1.pcRef
    IN Await([a1 EXCEPT !.pcs[p].neg = TRUE], "offer", p, "setRemoteOffer", sdpOk, 0)

\* on('answer') that does not await setRemoteDescription before setStatus.
OnAnswerNoAwait(a, sdpOk) ==
    LET a1 == EnsurePeer(Begin(a, "answer"))
        p == a1.pcRef
        ok == OpOk(a1.pcs[p], "setRemoteAnswer", sdpOk)
    IN SetStatus([a1 EXCEPT !.pcs[p] = IF ok THEN OpEffect(@, "setRemoteAnswer", 0) ELSE @],
                 Connected)

OnAnswer(a, sdpOk) ==
    LET a1 == EnsurePeer(Begin(a, "answer"))
    IN Await(a1, "answer", a1.pcRef, "setRemoteAnswer", sdpOk, 0)

\* on('ice-candidate') without the try/catch around addIceCandidate.
OnIceCandidateNoTry(a, candOk) ==
    LET a1 == EnsurePeer(Begin(a, "ice-candidate"))
        p == a1.pcRef
        c == a.cands + 1
        a2 == [a1 EXCEPT !.cands = c,
                         !.pcs[p].recv = Append(@, c),
                         !.pcs[p].early = IF a1.pcs[p].remoteDone THEN @ ELSE Append(@, c),
                         !.pcs[p].bad = IF candOk THEN @ ELSE Append(@, c)]
    IN Await(a2, "ice-notry", p, "addIce", candOk, c)

OnIceCandidate(a, candOk) ==
    LET a1 == EnsurePeer(Begin(a, "ice-candidate"))
        p == a1.pcRef
        c == a.cands + 1
        a2 == [a1 EXCEPT !.cands = c,
                         !.pcs[p].recv = Append(@, c),
                         !.pcs[p].early = IF a1.pcs[p].remoteDone THEN @ ELSE Append(@, c),
                         !.pcs[p].bad = IF candOk THEN @ ELSE Append(@, c)]
    IN Await(a2, "ice", p, "addIce", candOk, c)

\* endCall without `pcRef.current = null`.
EndCallKeepRef(a, room) ==
    LET a1 == IF a.socketRef # 0 /\ room # "" THEN Emit(a, Msg("leave", room, TRUE)) ELSE a
        p == a1.pcRef
        a2 == IF p # 0
              THEN [a1 EXCEPT !.pcs[p] = ClosePc(@),
                              !.localStream = IF a1.pcs[p].senders THEN "stopped" ELSE @]
              ELSE a1
    IN IF a2.mounted
       THEN [a2 EXCEPT !.remoteStream = 0, !.joined = FALSE, !.status = "idle"]
       ELSE a2

\* endCall, with the roomId its closure holds.
EndCall(a, room) ==
    LET a1 == IF a.socketRef # 0 /\ room # "" THEN Emit(a, Msg("leave", room, TRUE)) ELSE a
        p == a1.pcRef
        a2 == IF p # 0
              THEN [a1 EXCEPT !.pcs[p] = ClosePc(@),
                              !.pcRef = 0,
                              !.localStream = IF a1.pcs[p].senders THEN "stopped" ELSE @]
              ELSE a1
    IN IF a2.mounted
       THEN [a2 EXCEPT !.remoteStream = 0, !.joined = FALSE, !.status = "idle"]
       ELSE a2

\* peer-left without the endCall() call.
OnPeerLeftStatusOnly(a) == SetStatus(Begin(a, "peer-left"), "peer left")

OnPeerLeft(a) == EndCall(SetStatus(Begin(a, "peer-left"), "peer left"), a.capRoom)

\* ------------------------------------------------- continuation of a handler
\* on('ready') and on('offer') that emit the description they created before
\* setLocalDescription has settled.
ResumeEmitsFirst(a, k, res) ==
    LET t == a.tasks[k]
        p == t.pc
        b == Begin(a, IF res THEN "resume" ELSE IF t.kind = "ice" THEN "caught" ELSE "reject")
        a0 == [b EXCEPT !.tasks = RemoveAt(@, k),
                        !.pcs[p].cut = /\ @ \/ (t.ok /\ ~res)
                                       /\ \E j \in 1..Len(a.tasks) : j # k /\ a.tasks[j].pc = p,
                        !.last.stale = a.pcs[p].closed,
                        !.last.pre = IF a.pcs[p].closed THEN a.status ELSE "-",
                        !.last.kind = t.kind, !.last.await = t.await, !.last.pc = p]
        done == (t.await \in {"setRemoteOffer", "setRemoteAnswer"}) /\ ~a.pcs[p].closed
        a1 == IF done THEN [a0 EXCEPT !.pcs[p].remoteDone = TRUE] ELSE a0
    IN IF ~res THEN a0
       ELSE CASE t.await = "createOffer" ->
                    Await([Emit(a1, Msg("offer", a1.capRoom, TRUE)) EXCEPT !.pcs[p].offers = @ + 1],
                          t.kind, p, "setLocalOffer", TRUE, 0)
              [] t.await = "setLocalOffer" -> SetStatus(a1, "sent offer")
              [] t.await = "setRemoteOffer" -> Await(a1, t.kind, p, "createAnswer", TRUE, 0)
              [] t.await = "createAnswer" ->
                    Await([Emit(a1, Msg("answer", a1.capRoom, TRUE)) EXCEPT !.pcs[p].answers = @ + 1],
                          t.kind, p, "setLocalAnswer", TRUE, 0)
              [] t.await = "setLocalAnswer" -> SetStatus(a1, "answered offer")
              [] t.await = "setRemoteAnswer" -> SetStatus(a1, Connected)
              [] OTHER -> a1

\* The handler suspended at a.tasks[k] resumes with result res of its await.
Resume(a, k, res) ==
    LET t == a.tasks[k]
        p == t.pc
        \* a rejection is caught by the try of on('ice-candidate') only
        b == Begin(a, IF res THEN "resume" ELSE IF t.kind = "ice" THEN "caught" ELSE "reject")
        a0 == [b EXCEPT !.tasks = RemoveAt(@, k),
                        !.pcs[p].cut = /\ @ \/ (t.ok /\ ~res)
                                       /\ \E j \in 1..Len(a.tasks) : j # k /\ a.tasks[j].pc = p,
                        !.last.stale = a.pcs[p].closed,
                        !.last.pre = IF a.pcs[p].closed THEN a.status ELSE "-",
                        !.last.kind = t.kind, !.last.await = t.await, !.last.pc = p]
        done == (t.await \in {"setRemoteOffer", "setRemoteAnswer"}) /\ ~a.pcs[p].closed
        a1 == IF done THEN [a0 EXCEPT !.pcs[p].remoteDone = TRUE] ELSE a0
    IN IF ~res THEN a0
       ELSE CASE t.await = "createOffer" -> Await(a1, t.kind, p, "setLocalOffer", TRUE, 0)
              [] t.await = "setLocalOffer" ->
                    SetStatus(
                      IF a1.socketRef # 0
                      THEN [Emit(a1, Msg("offer", a1.capRoom, TRUE)) EXCEPT !.pcs[p].offers = @ + 1]
                      ELSE a1,
                      "sent offer")
              [] t.await = "setRemoteOffer" -> Await(a1, t.kind, p, "createAnswer", TRUE, 0)
              [] t.await = "createAnswer" -> Await(a1, t.kind, p, "setLocalAnswer", TRUE, 0)
              [] t.await = "setLocalAnswer" ->
                    SetStatus(
                      IF a1.socketRef # 0
                      THEN [Emit(a1, Msg("answer", a1.capRoom, TRUE)) EXCEPT !.pcs[p].answers = @ + 1]
                      ELSE a1,
                      "answered offer")
              [] t.await = "setRemoteAnswer" -> SetStatus(a1, Connected)
              [] OTHER -> a1

\* The engine settles promises of one connection in invocation order.
CanResume(a, k) == \A j \in 1..(k - 1) : a.tasks[j].pc # a.tasks[k].pc

\* An operation accepted before close() may have completed before it (the
\* promise resolves) or not (it rejects), and then none queued behind it
\* completed; an open connection reports the result the operation had.
Outcomes(a, k) ==
    LET pc == a.pcs[a.tasks[k].pc]
    IN IF pc.closed
       THEN (IF pc.cut THEN {FALSE} ELSE {a.tasks[k].ok, FALSE})
       ELSE {a.tasks[k].ok}

\* --------------------------------------------------------- connection events
\* pc.ontrack
OnTrack(a, p) ==
    LET b == [Begin(a, "track") EXCEPT !.last.pc = p]
    IN IF b.mounted THEN [b EXCEPT !.remoteStream = p] ELSE b

\* pc.onicecandidate with a candidate
\* pc.onicecandidate that stops forwarding once the status is Connected.
OnLocalCandidateUntilConnected(a, p) ==
    LET b == [Begin(a, "local-candidate") EXCEPT !.last.pc = p]
    IN IF b.status = Connected THEN b ELSE Emit(b, Msg("ice-candidate", b.capRoom, TRUE))

OnLocalCandidate(a, p) ==
    LET b == [Begin(a, "local-candidate") EXCEPT !.last.pc = p]
    IN Emit(b, Msg("ice-candidate", b.capRoom, TRUE))

\* ------------------------------------------------------------ user and mount
SetLocalStream(a) == [Begin(a, "stream") EXCEPT !.media = "done", !.localStream = "live"]

\* connectSocket without the `if (!socketRef.current)` test.
ConnectSocketAlways(a) ==
    [a EXCEPT !.socketRef = 1, !.connected = FALSE, !.capRoom = a.roomId,
              !.sockets = @ + 1, !.regs = @ + 1]

\* connectSocket: io() and one s.on(...) per event, unless a socket is held.
\* regs counts the handler sets registered on sockets not yet disconnected.
ConnectSocket(a) ==
    IF a.socketRef = 0
    THEN [a EXCEPT !.socketRef = 1, !.connected = FALSE, !.capRoom = a.roomId,
                   !.sockets = @ + 1, !.regs = @ + 1]
    ELSE a

\* joinRoom without the `if (!localStream) return`.
JoinRoomNoStreamTest(a) ==
    LET b == Begin(a, "join")
    IN [Emit(ConnectSocket(b), Msg("join", b.roomId, TRUE))
           EXCEPT !.joined = TRUE, !.joinedRoom = b.roomId]

JoinRoom(a) ==
    LET b == Begin(a, "join")
    IN IF b.localStream = "null" THEN b
       ELSE [Emit(ConnectSocket(b), Msg("join", b.roomId, TRUE))
                EXCEPT !.joined = TRUE, !.joinedRoom = b.roomId]

Leave(a) == EndCall(Begin(a, "leave"), a.roomId)

\* TextInput onChangeText={setRoomId}
EditRoom(a, r) == [Begin(a, "edit") EXCEPT !.roomId = r]

\* The unmount effect holds the first render's cleanup: roomId is the initial
\* one and localStream is still null there.
Cleanup(a) ==
    LET a1 == EndCall(Begin(a, "cleanup"), InitRoom)
    IN [a1 EXCEPT !.socketRef = 0, !.connected = FALSE, !.mounted = FALSE,
                  !.regs = IF a.socketRef # 0 THEN @ - 1 ELSE @]

\* ---------------------------------------------------------------- the state
InitApp ==
    [mounted |-> TRUE, media |-> "pending", localStream |-> "null",
     roomId |-> InitRoom, joined |-> FALSE, joinedRoom |-> "", status |-> "idle",
     remoteStream |-> 0,
     socketRef |-> 0, connected |-> FALSE, capRoom |-> InitRoom, sockets |-> 0, regs |-> 0,
     pcRef |-> 0, pcs |-> <<>>, tasks |-> <<>>,
     events |-> 0, cands |-> 0, last |-> NoLast]

Init ==
    /\ app = [i \in Members |-> InitApp]
    /\ net = [i \in Members |-> <<>>]
    /\ relay = [room |-> {}, ready |-> 0, trickled |-> 0]

Step(i, b) == /\ app' = [app EXCEPT ![i] = b]
              /\ UNCHANGED <<net, relay>>

Counted(b) == [b EXCEPT !.events = @ + 1]

CanReceive(a) == a.mounted /\ a.socketRef # 0 /\ a.connected

CanDeliver(a) == CanReceive(a) /\ a.events < MaxEvents

\* ------------------------------------------- actions of one member (Spec)
StreamGranted(i) ==
    /\ app[i].mounted /\ app[i].media = "pending"
    /\ Step(i, SetLocalStream(app[i]))

StreamDenied(i) ==
    /\ app[i].mounted /\ app[i].media = "pending"
    /\ Step(i, [Begin(app[i], "denied") EXCEPT !.media = "denied"])

UserJoin(i) ==
    /\ app[i].mounted /\ ~app[i].joined
    /\ Step(i, JoinRoom(app[i]))

UserLeave(i) ==
    /\ app[i].mounted /\ app[i].joined
    /\ Step(i, Leave(app[i]))

Unmount(i) ==
    /\ app[i].mounted
    /\ Step(i, Cleanup(app[i]))

EvConnect(i) ==
    /\ app[i].mounted /\ app[i].socketRef # 0 /\ ~app[i].connected
    /\ Step(i, [OnConnect(app[i]) EXCEPT !.connected = TRUE])

\* The relay sends joined and peer-joined to members of the room only.
EvJoined(i) ==
    /\ CanReceive(app[i]) /\ app[i].joined
    /\ \E count \in {1, 2} : Step(i, OnJoined(app[i], count))

EvPeerJoined(i) ==
    /\ CanReceive(app[i]) /\ app[i].joined
    /\ Step(i, OnPeerJoined(app[i]))

EvReady(i) ==
    /\ CanDeliver(app[i]) /\ CanEnsurePeer(app[i])
    /\ Step(i, Counted(OnReady(app[i])))

EvOffer(i) ==
    /\ CanDeliver(app[i]) /\ CanEnsurePeer(app[i])
    /\ \E sdpOk \in BOOLEAN : Step(i, Counted(OnOffer(app[i], sdpOk)))

EvAnswer(i) ==
    /\ CanDeliver(app[i]) /\ CanEnsurePeer(app[i])
    /\ \E sdpOk \in BOOLEAN : Step(i, Counted(OnAnswer(app[i], sdpOk)))

EvIceCandidate(i) ==
    /\ CanDeliver(app[i]) /\ CanEnsurePeer(app[i])
    /\ \E candOk \in BOOLEAN : Step(i, Counted(OnIceCandidate(app[i], candOk)))

EvPeerLeft(i) ==
    /\ CanReceive(app[i])
    /\ Step(i, OnPeerLeft(app[i]))

ResumeTask(i) ==
    \E k \in 1..Len(app[i].tasks) :
       /\ CanResume(app[i], k)
       /\ \E res \in Outcomes(app[i], k) : Step(i, Resume(app[i], k, res))

CanTrack(a, p) == ~a.pcs[p].closed /\ a.pcs[p].remoteDesc

TrackArrived(i) ==
    \E p \in 1..Len(app[i].pcs) :
       /\ CanTrack(app[i], p)
       /\ Step(i, OnTrack(app[i], p))

CanGather(a, p) == ~a.pcs[p].closed /\ a.pcs[p].localDesc

LocalCandidate(i) ==
    \E p \in 1..Len(app[i].pcs) :
       /\ CanGather(app[i], p)
       /\ Step(i, OnLocalCandidate(app[i], p))

Next ==
    \/ StreamGranted(1)
    \/ StreamDenied(1)
    \/ UserJoin(1)
    \/ UserLeave(1)
    \/ Unmount(1)
    \/ EvConnect(1)
    \/ EvJoined(1)
    \/ EvPeerJoined(1)
    \/ EvReady(1)
    \/ EvOffer(1)
    \/ EvAnswer(1)
    \/ EvIceCandidate(1)
    \/ EvPeerLeft(1)
    \/ ResumeTask(1)
    \/ TrackArrived(1)
    \/ LocalCandidate(1)

Spec == Init /\ [][Next]_vars

\* --------------------------------- the user edits the room id (SpecRooms)
UserEditRoom(i) ==
    /\ app[i].mounted
    /\ \E r \in Rooms : r # app[i].roomId /\ Step(i, EditRoom(app[i], r))

NextRooms == Next \/ UserEditRoom(1)

SpecRooms == Init /\ [][NextRooms]_vars

\* ------------------------------------ a member that is Connected (SpecConnected)
\* The member has joined, handled ready, sent its offer and applied the
\* answer: the state the handlers produce in that order.  The joined and
\* peer-joined notices, which precede the exchange and only set the status,
\* are left to Spec.
ConnectedApp ==
    LET a1 == JoinRoom(SetLocalStream(InitApp))
        a2 == [OnConnect(a1) EXCEPT !.connected = TRUE]
        a3 == Resume(Resume(OnReady(a2), 1, TRUE), 1, TRUE)
    IN Resume(OnAnswer(a3, TRUE), 1, TRUE)

InitConnected ==
    /\ app = [i \in Members |-> IF i = 1 THEN ConnectedApp ELSE InitApp]
    /\ net = [i \in Members |-> <<>>]
    /\ relay = [room |-> {}, ready |-> 0, trickled |-> 0]

NextConnected ==
    \/ UserJoin(1)
    \/ UserLeave(1)
    \/ Unmount(1)
    \/ EvReady(1)
    \/ EvOffer(1)
    \/ EvAnswer(1)
    \/ EvIceCandidate(1)
    \/ EvPeerLeft(1)
    \/ ResumeTask(1)
    \/ TrackArrived(1)
    \/ LocalCandidate(1)

SpecConnected == InitConnected /\ [][NextConnected]_vars

\* --------------------------------------- two members and the relay (SpecPair)
\* The relay forwards offer, answer and ice-candidate to the other member of
\* the room.
Forward(out, i) ==
    IF Other(i) \in relay.room
    THEN SelectSeq(out, LAMBDA m : m.type \in {"offer", "answer", "ice-candidate"})
    ELSE <<>>

\* The relay's reaction to join from member i; r is the member it picks for
\* ready when the room becomes full.
RelayJoin(i, r) ==
    IF relay.room = {}
    THEN /\ relay' = [relay EXCEPT !.room = {i}]
         /\ net' = [net EXCEPT ![i] = @ \o <<Msg("connect", "", TRUE), JoinedMsg(1)>>]
    ELSE /\ relay' = [relay EXCEPT !.room = @ \cup {i}, !.ready = r]
         /\ net' = [j \in Members |->
                      net[j]
                      \o (IF j = i THEN <<Msg("connect", "", TRUE), JoinedMsg(2)>>
                                   ELSE <<Msg("peer-joined", "", TRUE)>>)
                      \o (IF j = r THEN <<Msg("ready", "", TRUE)>> ELSE <<>>)]

\* A socket on which no answer handler was registered.
DispatchNoAnswer(a, m) ==
    CASE m.type = "connect" -> [OnConnect(a) EXCEPT !.connected = TRUE]
      [] m.type = "joined" -> OnJoined(a, m.count)
      [] m.type = "peer-joined" -> OnPeerJoined(a)
      [] m.type = "ready" -> OnReady(a)
      [] m.type = "offer" -> OnOffer(a, m.ok)
      [] m.type = "answer" -> Begin(a, "ignored")
      [] m.type = "ice-candidate" -> OnIceCandidate(a, m.ok)
      [] OTHER -> OnPeerLeft(a)

\* The handler the socket runs for inbound message m.
Dispatch(a, m) ==
    CASE m.type = "connect" -> [OnConnect(a) EXCEPT !.connected = TRUE]
      [] m.type = "joined" -> OnJoined(a, m.count)
      [] m.type = "peer-joined" -> OnPeerJoined(a)
      [] m.type = "ready" -> OnReady(a)
      [] m.type = "offer" -> OnOffer(a, m.ok)
      [] m.type = "answer" -> OnAnswer(a, m.ok)
      [] m.type = "ice-candidate" -> OnIceCandidate(a, m.ok)
      [] OTHER -> OnPeerLeft(a)

PairJoin(i) ==
    /\ app[i].mounted /\ ~app[i].joined /\ app[i].localStream # "null"
    /\ i \notin relay.room
    /\ app' = [app EXCEPT ![i] = JoinRoom(app[i])]
    /\ IF relay.room = {} THEN RelayJoin(i, 0) ELSE \E r \in Members : RelayJoin(i, r)

PairDeliver(i) ==
    /\ net[i] # <<>>
    /\ CanEnsurePeer(app[i])
    /\ LET b == Dispatch(app[i], Head(net[i]))
       IN /\ app' = [app EXCEPT ![i] = b]
          /\ net' = [net EXCEPT ![i] = Tail(@),
                                ![Other(i)] = @ \o Forward(b.last.out, i)]
    /\ UNCHANGED relay

PairResume(i) ==
    /\ \E k \in 1..Len(app[i].tasks) :
          /\ CanResume(app[i], k)
          /\ \E res \in Outcomes(app[i], k) :
                LET b == Resume(app[i], k, res)
                IN /\ app' = [app EXCEPT ![i] = b]
                   /\ net' = [net EXCEPT ![Other(i)] = @ \o Forward(b.last.out, i)]
    /\ UNCHANGED relay

PairLocalCandidate(i) ==
    /\ relay.trickled < MaxTrickle
    /\ \E p \in 1..Len(app[i].pcs) :
          /\ CanGather(app[i], p)
          /\ LET b == OnLocalCandidate(app[i], p)
             IN /\ app' = [app EXCEPT ![i] = b]
                /\ net' = [net EXCEPT ![Other(i)] = @ \o Forward(b.last.out, i)]
    /\ relay' = [relay EXCEPT !.trickled = @ + 1]

NextPair ==
    \E i \in Members :
       \/ StreamGranted(i)
       \/ PairJoin(i)
       \/ PairDeliver(i)
       \/ PairResume(i)
       \/ PairLocalCandidate(i)
       \/ TrackArrived(i)

\* Every enabled step of the run is eventually taken: the engine settles its
\* promises, the socket delivers what the relay sent, both users join.
SpecPair == Init /\ [][NextPair]_vars /\ WF_vars(NextPair)

\* ================================================================== claims

ExchangeStatuses == {"sent offer", "answered offer", Connected}

PcIds(a) == 1..Len(a.pcs)

\* The Idle baseline: nothing of a call is left.
IdleBaseline(a) ==
    a.status = "idle" /\ ~a.joined /\ a.remoteStream = 0 /\ a.pcRef = 0

\* The Join button would start a join.
CanJoin(a) == a.mounted /\ ~a.joined /\ a.localStream # "null"

PendingIce(a, p) == \E k \in 1..Len(a.tasks) : a.tasks[k].pc = p /\ a.tasks[k].await = "addIce"

\* C1 (as claimed): addIceCandidate is never invoked on a connection on which
\* no setRemoteDescription has completed.
C1_NoCandidateBeforeRemote ==
    \A i \in Members : \A p \in PcIds(app[i]) : app[i].pcs[p].early = <<>>

\* C2 (as claimed): the well-formed candidates that arrived before the remote
\* description was applied are, once it is applied and no addIceCandidate is
\* in flight, exactly the ones applied from among them, once each and in
\* arrival order.
C2_EarlyCandidatesFlushed ==
    \A i \in Members : \A p \in PcIds(app[i]) :
       LET pc == app[i].pcs[p]
           isEarly(c) == \E n \in 1..Len(pc.early) : pc.early[n] = c
           isGood(c) == \A n \in 1..Len(pc.bad) : pc.bad[n] # c
       IN (pc.remoteDone /\ ~PendingIce(app[i], p))
             => SelectSeq(pc.applied, isEarly) = SelectSeq(pc.early, isGood)

\* C3: at most one peer connection is not closed, and it is the one pcRef
\* holds, so every earlier one was closed before a new one was created.
C3_AtMostOneOpenPc ==
    \A i \in Members : \A p \in PcIds(app[i]) :
       ~app[i].pcs[p].closed => (p = app[i].pcRef /\ p = Len(app[i].pcs))

C3_SecondPcCreated ==
    \E i \in Members :
       /\ Len(app[i].pcs) >= 2
       /\ app[i].pcs[1].closed
       /\ ~app[i].pcs[Len(app[i].pcs)].closed

\* C4 (as claimed): the continuation of a handler whose connection has been
\* closed sends nothing and leaves the status as it was.
C4_StaleContinuationInert ==
    \A i \in Members :
       (app[i].last.op = "resume" /\ app[i].last.stale)
          => (app[i].last.out = <<>> /\ app[i].status = app[i].last.pre)

\* C5 (as claimed): on one connection at most one offer and at most one
\* answer are sent.
C5_OneOfferOneAnswer ==
    \A i \in Members : \A p \in PcIds(app[i]) :
       app[i].pcs[p].offers <= 1 /\ app[i].pcs[p].answers <= 1

\* C6: right after endCall the member is in the Idle baseline; a second
\* endCall in a row finds no connection to release, and no connection is
\* ever closed twice.
C6_LeaveTwiceIdle ==
    \A i \in Members :
       /\ app[i].last.run >= 1 => IdleBaseline(app[i])
       /\ app[i].last.run = 2 => app[i].last.prePc = 0
       /\ \A p \in PcIds(app[i]) : app[i].pcs[p].closes <= 1

C6_LeftTwice ==
    \E i \in Members :
       /\ app[i].last.run = 2
       /\ \E p \in PcIds(app[i]) : app[i].pcs[p].closes = 1

\* The negotiation of member o as offerer and its peer as answerer is
\* complete on both connections.
Negotiated(o) ==
    LET a == app[o]
        b == app[Other(o)]
    IN /\ relay.ready = o
       /\ a.pcRef # 0 /\ b.pcRef # 0
       /\ a.pcs[a.pcRef].offers = 1 /\ a.pcs[a.pcRef].remoteDone
       /\ a.pcs[a.pcRef].sig = "stable"
       /\ b.pcs[b.pcRef].answers = 1 /\ b.pcs[b.pcRef].remoteDone
       /\ b.pcs[b.pcRef].sig = "stable"

PairSettled(o) ==
    /\ Negotiated(o)
    /\ app[o].status = Connected
    /\ app[Other(o)].status = "answered offer"

\* C7 (amended): in the two-member run the member that receives ready sends
\* one offer, the other applies it and sends one answer, the offerer applies
\* the answer, and eventually the offerer shows "connected (answer set)"
\* while the answerer shows "answered offer".
C7_PairNegotiates == <>(\E o \in Members : PairSettled(o))

C7_PairSettledReached == \E o \in Members : PairSettled(o)

PairQuiet ==
    /\ relay.ready # 0
    /\ \A i \in Members : net[i] = <<>> /\ app[i].tasks = <<>>

\* C7 (as claimed): when the two-member run has come to rest, both members
\* are in the Connected state.
C7_BothConnectedAtRest ==
    PairQuiet => \A i \in Members : app[i].status = Connected

\* C8: after peer-left is handled while the status is Connected, the member
\* is in the Idle baseline, every connection it created is closed and was
\* closed once, the local tracks the held connection was sending are stopped,
\* and the Join button starts a join.
C8_PeerLeftTeardown ==
    \A i \in Members :
       LET a == app[i]
       IN (a.last.op = "peer-left" /\ a.last.pre = Connected)
             => /\ IdleBaseline(a)
                /\ \A p \in PcIds(a) : a.pcs[p].closed /\ a.pcs[p].closes = 1
                /\ a.last.prePc # 0 => a.localStream = "stopped"
                /\ CanJoin(a)

C8_PeerLeftWhileConnected ==
    \E i \in Members :
       LET a == app[i]
       IN /\ a.last.op = "peer-left" /\ a.last.pre = Connected
          /\ a.last.prePc # 0
          /\ a.pcs[a.last.prePc].remoteDone /\ a.pcs[a.last.prePc].offers = 1

\* C9 (as claimed): handling peer-left sends no leave message.
C9_NoLeaveOnPeerLeft ==
    \A i \in Members :
       app[i].last.op = "peer-left"
          => \A n \in 1..Len(app[i].last.out) : app[i].last.out[n].type # "leave"

\* C10 (as claimed): a peer connection is held exactly when an offer/answer
\* exchange is in progress or complete: a held connection has had a ready or
\* an offer handled on it or the status is one of the exchange, and such a
\* status comes with a held connection.
C10_PcIffNegotiating ==
    \A i \in Members :
       LET a == app[i]
       IN /\ a.pcRef # 0 => (a.pcs[a.pcRef].neg \/ a.status \in ExchangeStatuses)
          /\ a.status \in ExchangeStatuses => a.pcRef # 0

\* C11 (as claimed): a ready or offer handled right after joinRoom re-joined
\* runs on a connection created after that join: none was held when the
\* join ran, so nothing received before it has been applied to the
\* connection the handler uses.
C11_FreshAfterRejoin ==
    [][\A i \in Members :
          (/\ app[i].last.op = "join" /\ app[i].joined
           /\ app'[i].last.op \in {"ready", "offer"})
             => app[i].pcRef = 0]_vars

\* The step from a to b handles a malformed candidate on the held connection:
\* it is received, or the addIceCandidate invoked for it settles.
BadCandidateStep(a, b) ==
    \/ /\ b.last.op = "ice-candidate"
       /\ \E n \in 1..Len(b.pcs[a.pcRef].bad) : b.pcs[a.pcRef].bad[n] = b.cands
    \/ \E k \in 1..Len(a.tasks) :
          /\ a.tasks[k].await = "addIce" /\ a.tasks[k].pc = a.pcRef
          /\ \E n \in 1..Len(a.pcs[a.pcRef].bad) : a.pcs[a.pcRef].bad[n] = a.tasks[k].cand
          /\ b.tasks = RemoveAt(a.tasks, k)

\* C12: while the status is Connected and a connection is held, receiving a
\* malformed candidate and the failure of its addIceCandidate leave the
\* status Connected and the same connection held and open, create no other
\* connection, and the rejection is caught inside the handler.
C12_BadCandidateSwallowed ==
    [][\A i \in Members :
          LET a == app[i]
              b == app'[i]
          IN (a.status = Connected /\ a.pcRef # 0 /\ BadCandidateStep(a, b))
                => /\ b.status = Connected
                   /\ b.pcRef = a.pcRef /\ ~b.pcs[a.pcRef].closed
                   /\ Len(b.pcs) = Len(a.pcs)
                   /\ b.last.op # "reject"
                   /\ b.last.out = <<>>]_vars

C12_BadCandidateCaught ==
    \E i \in Members :
       LET a == app[i]
       IN /\ a.status = Connected /\ a.pcRef # 0
          /\ a.pcs[a.pcRef].remoteDone /\ a.pcs[a.pcRef].offers = 1
          /\ a.last.op = "caught" /\ a.last.pc = a.pcRef /\ ~a.last.stale
          /\ a.pcs[a.pcRef].bad # <<>>

\* C13 (as claimed): when setRemoteDescription of a received offer or answer
\* fails on the held connection, the failure is caught inside the handler
\* and the connection is destroyed: it is closed and pcRef no longer holds it.
C13_SdpFailureAbsorbed ==
    \A i \in Members :
       LET a == app[i]
       IN (/\ a.last.op \in {"reject", "caught"} /\ ~a.last.stale
           /\ a.last.await \in {"setRemoteOffer", "setRemoteAnswer"})
             => /\ a.last.op = "caught"
                /\ a.pcs[a.last.pc].closed
                /\ a.pcRef = 0

\* The messages of the given type the last step of member record a emitted.
Sent(a, type) == \E n \in 1..Len(a.last.out) : a.last.out[n].type = type

\* C14: an offer is emitted only by the handler a ready event started and an
\* answer only by the handler an offer event started.
C14_OfferOnReadyAnswerOnOffer ==
    \A i \in Members :
       /\ Sent(app[i], "offer") => app[i].last.kind = "ready"
       /\ Sent(app[i], "answer") => app[i].last.kind = "offer"

C14_OfferAfterAnswerSent ==
    \E i \in Members :
       /\ Sent(app[i], "offer") /\ app[i].last.kind = "ready"
       /\ \E p \in PcIds(app[i]) : app[i].pcs[p].answers = 1

C16_SendAfterDescriptionsSet ==
    \A i \in Members :
       LET a == app[i]
       IN /\ Sent(a, "offer") => /\ a.last.op = "resume" /\ a.last.await = "setLocalOffer"
                                 /\ a.pcs[a.last.pc].localDesc
          /\ Sent(a, "answer") => /\ a.last.op = "resume" /\ a.last.await = "setLocalAnswer"
                                  /\ a.pcs[a.last.pc].remoteDesc /\ a.pcs[a.last.pc].localDesc

C16_AnswerSentAfterBoth ==
    \E i \in Members :
       LET a == app[i]
       IN /\ Sent(a, "answer") /\ a.last.await = "setLocalAnswer" /\ ~a.last.stale
          /\ a.pcs[a.last.pc].sig = "stable" /\ a.pcs[a.last.pc].remoteDone

C18_NoJoinWithoutStream ==
    \A i \in Members :
       LET a == app[i]
       IN a.localStream = "null"
             => /\ a.socketRef = 0 /\ a.sockets = 0
                /\ ~a.joined /\ a.status = "idle"
                /\ a.pcRef = 0 /\ a.pcs = <<>>
                /\ a.last.out = <<>>

C18_JoinPressedWithoutStream ==
    \E i \in Members :
       app[i].last.op = "join" /\ app[i].localStream = "null" /\ app[i].media = "denied"

\* C19 (as claimed): every offer, answer and ice-candidate a joined member
\* sends carries the roomId of its most recent join message.
C19_MessagesCarryJoinedRoom ==
    \A i \in Members :
       LET a == app[i]
       IN a.joined =>
             \A n \in 1..Len(a.last.out) :
                a.last.out[n].type \in {"offer", "answer", "ice-candidate"}
                   => a.last.out[n].roomId = a.joinedRoom

\* C20: at most one set of handlers is registered at any time, the held
\* socket has exactly one (so an inbound message runs its handler once),
\* and no second socket is created while the component is mounted.
C20_HandlersRegisteredOnce ==
    \A i \in Members :
       LET a == app[i]
       IN /\ a.regs = (IF a.socketRef # 0 THEN 1 ELSE 0)
          /\ a.mounted => a.sockets = (IF a.socketRef # 0 THEN 1 ELSE 0)
          /\ a.sockets <= 1

C20_RejoinedOnSameSocket ==
    \E i \in Members :
       LET a == app[i]
       IN /\ a.last.op = "join" /\ a.joined /\ a.sockets = 1 /\ a.regs = 1
          /\ \E p \in PcIds(a) : a.pcs[p].closed

====
